---- MODULE Spec2Model ----
(***************************************************************************)
(* Verification model of the asset form (app/components/assets/form.tsx)   *)
(* and of the booking edit route's action                                  *)
(* (app/routes/_layout+/bookings.$bookingId.tsx).                          *)
(*                                                                         *)
(* JavaScript objects with optional keys are functions whose DOMAIN holds  *)
(* the keys that are present: an absent key is `undefined`.  <<>> is the   *)
(* object with no key.                                                     *)
(***************************************************************************)
EXTENDS Integers, Sequences, FiniteSets, TLC

VARIABLES
    pc,            \* where the component / the handler stands
    props,         \* AssetForm: the props it was rendered with
    loaded,        \* AssetForm: useLoaderData().customFields
    customFields,  \* AssetForm: the mapped list handed to mergedSchema
    FormSchema,    \* AssetForm: the merged schema (a sequence of field rules)
    defaults,      \* AssetForm: defaultValue of each rendered control
    rawValues,     \* AssetForm: the form values zorm validated
    zo,            \* AssetForm: zorm's validation result
    file,          \* AssetForm: the file chosen in the mainImage input
    fileError,     \* AssetForm: fileErrorAtom
    request,       \* action: the request (method, form data)
    locals,        \* action: authSession, organizationId, id, intent, booking
    result,        \* action: NewBookingFormSchema.safeParseAsync's result
    trace,         \* action: the calls made so far, in order
    response       \* action: what the invocation returned or threw

formVars == <<props, loaded, customFields, FormSchema, defaults, rawValues, zo, file, fileError>>
actionVars == <<request, locals, result, trace, response>>
vars == <<pc, props, loaded, customFields, FormSchema, defaults, rawValues, zo, file, fileError, request, locals, result, trace, response>>

(***************************************************************************)
(* Bounds                                                                  *)
(***************************************************************************)
\* The longest list of custom fields the loader returns.
MaxCustomFields == 1

(***************************************************************************)
(* JavaScript helpers                                                      *)
(***************************************************************************)
\* The value of a variable that holds `undefined`.
Undefined == "undefined"

\* obj.key is present and truthy (a string is falsy when empty).
Truthy(obj, key) == key \in DOMAIN obj /\ obj[key] # ""

\* f restricted to the keys in S.
Restrict(f, S) == [k \in (DOMAIN f) \cap S |-> f[k]]

\* Every object with exactly the keys of `keys` (a sequence without
\* repetition) and obj[k] \in dom[k], or with some of those keys absent
\* when k \in optionalKeys.
RECURSIVE Objects(_, _, _)
Objects(keys, dom, optionalKeys) ==
    IF keys = <<>> THEN {<<>>}
    ELSE LET k == Head(keys)
             present == {k :> v : v \in dom[k]}
             choices == IF k \in optionalKeys THEN present \cup {<<>>} ELSE present
         IN {c @@ o : c \in choices, o \in Objects(Tail(keys), dom, optionalKeys)}

(***************************************************************************)
(* The base schema: z.object({...}) of form.tsx.  A rule is one field of   *)
(* the object: its name, its zod type, whether `undefined` is rejected,    *)
(* the least length of a string and the message given below it.            *)
(***************************************************************************)
\* z.string().min(2, "Title is required")
TitleMin == 2

StringRule(name, required, min, message) ==
    [name |-> name, kind |-> "string", required |-> required, min |-> min, message |-> message]

\* Variant: the schema with the file input among its fields.
NewAssetFormSchema_withImage ==
    << StringRule("title", TRUE, TitleMin, "Title is required"),
       StringRule("description", TRUE, 0, ""),
       StringRule("category", TRUE, 0, ""),
       StringRule("newLocationId", FALSE, 0, ""),
       StringRule("currentLocationId", FALSE, 0, ""),
       StringRule("qrId", FALSE, 0, ""),
       StringRule("tags", FALSE, 0, ""),
       StringRule("mainImage", FALSE, 0, "") >>

NewAssetFormSchema ==
    << StringRule("title", TRUE, TitleMin, "Title is required"),
       StringRule("description", TRUE, 0, ""),
       StringRule("category", TRUE, 0, ""),
       StringRule("newLocationId", FALSE, 0, ""),
       StringRule("currentLocationId", FALSE, 0, ""),
       StringRule("qrId", FALSE, 0, ""),
       StringRule("tags", FALSE, 0, "") >>

\* The names of a schema's fields.
FieldNames(schema) == {schema[i].name : i \in 1..Len(schema)}

BaseFields == FieldNames(NewAssetFormSchema)

(***************************************************************************)
(* The custom fields of the organisation, as the loader returns them, and  *)
(* the list AssetForm makes of them.                                       *)
(***************************************************************************)
CustomFieldTypes == {"TEXT", "NUMBER", "DATE", "BOOLEAN"}

\* The i-th custom field of the organisation: its name, and its help text
\* where it has one (helpText is null otherwise).
CustomFieldNames == <<"warranty_months", "is_loaned", "serial_no", "purchased_on">>
CustomFieldHelp == ("warranty_months" :> "Months of warranty") @@ ("serial_no" :> "As printed on the label")

LoadedField(i, type, required, active) ==
    LET name == CustomFieldNames[i]
        fixed == [id |-> i, name |-> name, required |-> required, type |-> type,
                  active |-> active, options |-> <<>>]
    IN IF name \in DOMAIN CustomFieldHelp
       THEN ("helpText" :> CustomFieldHelp[name]) @@ fixed
       ELSE fixed

RECURSIVE LoadedLists(_)
LoadedLists(n) ==
    IF n = 0 THEN {<<>>}
    ELSE LET shorter == LoadedLists(n - 1)
         IN shorter \cup
            { Append(s, LoadedField(n, t, r, a)) :
                s \in {x \in shorter : Len(x) = n - 1},
                t \in CustomFieldTypes, r \in BOOLEAN, a \in BOOLEAN }

\* What useLoaderData().customFields can hold.
LoaderCustomFields == LoadedLists(MaxCustomFields)

\* String.prototype.toLowerCase on a custom field type.
toLowerCase(type) ==
    CASE type = "TEXT" -> "text"
      [] type = "NUMBER" -> "number"
      [] type = "DATE" -> "date"
      [] type = "BOOLEAN" -> "boolean"

\* The value `false` of JavaScript, where a list element is not an object.
JsFalse == [js |-> "false"]

IsDefinition(e) == "id" \in DOMAIN e

\* Variant: the map that drops the definition's required flag.
MapCustomField_notRequired(cf) ==
    IF cf.active
    THEN [id |-> cf.id, name |-> cf.name,
          helpText |-> IF Truthy(cf, "helpText") THEN cf.helpText ELSE "",
          required |-> FALSE, type |-> toLowerCase(cf.type), options |-> cf.options]
    ELSE JsFalse

\* cf.active && { id, name, helpText, required, type, options }
MapCustomField(cf) ==
    IF cf.active
    THEN [id |-> cf.id, name |-> cf.name,
          helpText |-> IF Truthy(cf, "helpText") THEN cf.helpText ELSE "",
          required |-> cf.required, type |-> toLowerCase(cf.type), options |-> cf.options]
    ELSE JsFalse

\* useLoaderData().customFields.map(...)
CustomFieldsOf(list) == [i \in 1..Len(list) |-> MapCustomField(list[i])]

(***************************************************************************)
(* mergedSchema of ~/utils/custom-fields.  The rule of a custom field is   *)
(* named after the field and carries the definition's required flag.  An   *)
(* element that is no definition contributes no rule.                      *)
(***************************************************************************)
CustomRule(def) ==
    [name |-> def.name, kind |-> def.type, required |-> def.required, min |-> 0, message |-> ""]

RECURSIVE CustomRules(_)
CustomRules(list) ==
    IF list = <<>> THEN <<>>
    ELSE IF IsDefinition(Head(list))
         THEN <<CustomRule(Head(list))>> \o CustomRules(Tail(list))
         ELSE CustomRules(Tail(list))

mergedSchema(baseSchema, list) == baseSchema \o CustomRules(list)

(***************************************************************************)
(* Validation: FormSchema.safeParse, as zorm runs it on the form's values. *)
(***************************************************************************)
\* z.string(): `undefined` is "Required" unless .optional(); .min(n, message)
\* gives `message` to a string shorter than n.
StringFieldError(rule, raw) ==
    IF rule.name \notin DOMAIN raw
    THEN IF rule.required THEN "Required" ELSE Undefined
    ELSE IF Len(raw[rule.name]) < rule.min THEN rule.message ELSE Undefined

\* The literals the custom field types accept, with the values they parse to.
NumericLiterals == ("12" :> 12) @@ ("0" :> 0)
DateLiterals == ("2024-01-01" :> [year |-> 2024, month |-> 1, day |-> 1])
BooleanTokens == ("true" :> TRUE) @@ ("on" :> TRUE) @@ ("false" :> FALSE) @@ ("off" :> FALSE)

\* A custom field's value is empty when it is absent or the empty string.
IsEmpty(rule, raw) == rule.name \notin DOMAIN raw \/ raw[rule.name] = ""

\* The rule of a custom field: an empty value is an error when the field is
\* required and permitted otherwise; a value must parse as its type.
CustomFieldError(rule, raw) ==
    IF IsEmpty(rule, raw)
    THEN IF rule.required THEN "This field is required" ELSE Undefined
    ELSE CASE rule.kind = "text" -> Undefined
           [] rule.kind = "number" ->
                IF raw[rule.name] \in DOMAIN NumericLiterals THEN Undefined ELSE "Expected a number"
           [] rule.kind = "date" ->
                IF raw[rule.name] \in DOMAIN DateLiterals THEN Undefined ELSE "Expected a date"
           [] rule.kind = "boolean" ->
                IF raw[rule.name] \in DOMAIN BooleanTokens THEN Undefined ELSE "Expected a boolean"

FieldError(rule, raw) ==
    IF rule.kind = "string" THEN StringFieldError(rule, raw) ELSE CustomFieldError(rule, raw)

\* The parsed value of a field that has no error, as the one-key object
\* {name: value}, or {} where the output has no such key.
FieldData(rule, raw) ==
    IF rule.kind = "string"
    THEN Restrict(raw, {rule.name})
    ELSE IF IsEmpty(rule, raw)
         THEN IF rule.kind = "boolean" THEN rule.name :> FALSE ELSE <<>>
         ELSE CASE rule.kind = "text" -> rule.name :> raw[rule.name]
                [] rule.kind = "number" -> rule.name :> NumericLiterals[raw[rule.name]]
                [] rule.kind = "date" -> rule.name :> DateLiterals[raw[rule.name]]
                [] rule.kind = "boolean" -> rule.name :> BooleanTokens[raw[rule.name]]

\* Variant: a parser that stops at the first field with an issue.
RECURSIVE ParseFrom_firstIssueOnly(_, _, _)
ParseFrom_firstIssueOnly(schema, raw, i) ==
    IF i > Len(schema) THEN [errors |-> <<>>, data |-> <<>>]
    ELSE LET rule == schema[i]
             err == FieldError(rule, raw)
         IN IF err # Undefined
            THEN [errors |-> rule.name :> err, data |-> <<>>]
            ELSE LET rest == ParseFrom_firstIssueOnly(schema, raw, i + 1)
                 IN [errors |-> rest.errors, data |-> FieldData(rule, raw) @@ rest.data]

\* The object parser visits every key of the shape and keeps every issue.
RECURSIVE ParseFrom(_, _, _)
ParseFrom(schema, raw, i) ==
    IF i > Len(schema) THEN [errors |-> <<>>, data |-> <<>>]
    ELSE LET rule == schema[i]
             err == FieldError(rule, raw)
             rest == ParseFrom(schema, raw, i + 1)
         IN IF err # Undefined
            THEN [errors |-> (rule.name :> err) @@ rest.errors, data |-> rest.data]
            ELSE [errors |-> rest.errors, data |-> FieldData(rule, raw) @@ rest.data]

\* safeParse: Valid with the parsed data, or Invalid with the field errors.
Validate(schema, raw) ==
    LET parsed == ParseFrom(schema, raw, 1)
    IN IF DOMAIN parsed.errors = {}
       THEN [status |-> "Valid", data |-> parsed.data, errors |-> <<>>]
       ELSE [status |-> "Invalid", data |-> <<>>, errors |-> parsed.errors]

NotValidated == [status |-> "none", data |-> <<>>, errors |-> <<>>]

(***************************************************************************)
(* The mainImage input: validateFileAtom sets fileErrorAtom.               *)
(***************************************************************************)
\* "Accepts PNG, JPG or JPEG (max.4 MB)"
MaxFileSizeMB == 4

\* accept="image/png,.png,image/jpeg,.jpg,.jpeg"
AcceptedTypes == {"image/png", "image/jpeg"}

NoFile == [type |-> "none", sizeMB |-> 0]

\* The files a user may choose.
Files == [type : {"image/png", "image/jpeg", "application/pdf"}, sizeMB : {1, MaxFileSizeMB + 1}]

\* The narrower rule of the primary image: MIME type in the allow-list and
\* size under the ceiling.
FileErrorOf(f) ==
    IF f.type \notin AcceptedTypes THEN "Allowed file types are: PNG, JPG or JPEG"
    ELSE IF f.sizeMB > MaxFileSizeMB THEN "Max file size is 4MB"
    ELSE Undefined

(***************************************************************************)
(* AssetForm                                                               *)
(***************************************************************************)
\* The props the edit page may pass; every prop is optional.
PropKeys == <<"title", "category", "location", "description", "qrId", "tags">>
PropValues ==
    [k \in {"title", "category", "location", "description", "qrId", "tags"} |->
        CASE k = "title" -> {"", "Drill"}
          [] k = "category" -> {"c1"}
          [] k = "location" -> {"l1"}
          [] k = "description" -> {"", "A cordless drill"}
          [] k = "qrId" -> {"qr1"}
          [] k = "tags" -> {<<"t1">>}]
PropsSet == Objects(PropKeys, PropValues, DOMAIN PropValues)

\* The new-asset page passes no default.
NoProps == <<>>

\* The Locations select: defaultValue={category || undefined}
LocationDefault(p) ==
    IF Truthy(p, "category") THEN "Location" :> p.category ELSE <<>>

\* The defaultValue (or value) of each control, by the control's label; a
\* control without one has no key.
DefaultValues(p) ==
    ("Name" :> IF Truthy(p, "title") THEN p.title ELSE "")
    @@ ("Description" :> IF Truthy(p, "description") THEN p.description ELSE "")
    @@ (IF Truthy(p, "category") THEN "Category" :> p.category ELSE <<>>)
    @@ LocationDefault(p)
    @@ (IF Truthy(p, "qrId") THEN "qrId" :> p.qrId ELSE <<>>)
    @@ ("Tags" :> IF "tags" \in DOMAIN p THEN p.tags ELSE <<>>)

\* One render of the component: the mapped custom fields, the merged schema
\* and the controls' defaults; zorm and the file atom start empty.
Render(p, list) ==
    /\ pc = "idle"
    /\ pc' = "mounted"
    /\ props' = p
    /\ loaded' = list
    /\ customFields' = CustomFieldsOf(list)
    /\ FormSchema' = mergedSchema(NewAssetFormSchema, CustomFieldsOf(list))
    /\ defaults' = DefaultValues(p)
    /\ rawValues' = <<>>
    /\ zo' = NotValidated
    /\ file' = NoFile
    /\ fileError' = Undefined
    /\ UNCHANGED actionVars

\* The new-asset page, for an organisation with any custom fields.
MountNew == pc = "idle" /\ \E list \in LoaderCustomFields : Render(NoProps, list)

\* The edit page, with any props.
MountEdit == pc = "idle" /\ \E p \in PropsSet, list \in LoaderCustomFields : Render(p, list)

\* The new-asset page of an organisation without custom fields.
MountPlain == Render(NoProps, <<>>)

\* The values a form may hold for a rule: any string of its kind's samples.
SampleValues(rule) ==
    CASE rule.name = "title" -> {"", "a", "ab"}
      [] rule.kind = "string" /\ rule.name # "title" -> {"", "x"}
      [] rule.kind = "text" -> {"", "abc"}
      [] rule.kind = "number" -> {"", "abc", "12"}
      [] rule.kind = "date" -> {"", "abc", "2024-01-01"}
      [] rule.kind = "boolean" -> {"", "abc", "true"}

\* The form data over the rules of `schema` at the indices `idx` (in
\* order); any field may be absent.
FormData(schema, idx) ==
    LET keys == [i \in 1..Len(idx) |-> schema[idx[i]].name]
        dom == [n \in FieldNames(schema) |->
                   SampleValues(CHOOSE r \in {schema[i] : i \in 1..Len(schema)} : r.name = n)]
    IN Objects(keys, dom, FieldNames(schema))

\* The indices of the rules that reject `undefined` or are custom.
RECURSIVE CoreIndices(_, _)
CoreIndices(schema, i) ==
    IF i > Len(schema) THEN <<>>
    ELSE IF schema[i].required \/ schema[i].kind # "string"
         THEN <<i>> \o CoreIndices(schema, i + 1)
         ELSE CoreIndices(schema, i + 1)

\* zorm validates the form's values against FormSchema.
ZormValidate(raw) ==
    /\ pc = "mounted"
    /\ pc' = "validated"
    /\ rawValues' = raw
    /\ zo' = Validate(FormSchema, raw)
    /\ UNCHANGED <<props, loaded, customFields, FormSchema, defaults, file, fileError>>
    /\ UNCHANGED actionVars

\* A submission that fills (or omits) the required and the custom fields.
Submit ==
    /\ pc = "mounted"
    /\ \E raw \in FormData(FormSchema, CoreIndices(FormSchema, 1)) : ZormValidate(raw)

\* A submission that fills (or omits) any field of the schema.
SubmitAny ==
    /\ pc = "mounted"
    /\ \E raw \in FormData(FormSchema, [i \in 1..Len(FormSchema) |-> i]) : ZormValidate(raw)

\* onChange={validateFile}; the input is disabled once a valid form is
\* being submitted.
ValidateFile ==
    /\ pc = "mounted" \/ (pc = "validated" /\ zo.status = "Invalid")
    /\ \E f \in Files :
        /\ file' = f
        /\ fileError' = FileErrorOf(f)
    /\ UNCHANGED <<pc, props, loaded, customFields, FormSchema, defaults, rawValues, zo>>
    /\ UNCHANGED actionVars

\* The page is left (after a valid submission, or at any time).
Unmount ==
    /\ pc \in {"mounted", "validated"}
    /\ pc' = "idle"
    /\ props' = NoProps
    /\ loaded' = <<>>
    /\ customFields' = <<>>
    /\ FormSchema' = <<>>
    /\ defaults' = <<>>
    /\ rawValues' = <<>>
    /\ zo' = NotValidated
    /\ file' = NoFile
    /\ fileError' = Undefined
    /\ UNCHANGED actionVars

(***************************************************************************)
(* The booking route's action                                              *)
(***************************************************************************)
\* The value `null` of JavaScript.
Null == "null"

\* NewBookingFormSchema of ~/components/booking: the fields the action reads
\* from result.data, each required.
NewBookingFormSchema ==
    << [name |-> "name", kind |-> "text", required |-> TRUE, min |-> 0, message |-> ""],
       [name |-> "startDate", kind |-> "date", required |-> TRUE, min |-> 0, message |-> ""],
       [name |-> "endDate", kind |-> "date", required |-> TRUE, min |-> 0, message |-> ""],
       [name |-> "custodian", kind |-> "text", required |-> TRUE, min |-> 0, message |-> ""] >>

\* The form data a request may carry.
BookingFormKeys == <<"name", "startDate", "endDate", "custodian", "intent">>
BookingFormValues ==
    [k \in {"name", "startDate", "endDate", "custodian", "intent"} |->
        CASE k = "name" -> {"", "Trip"}
          [] k = "startDate" -> {"2024-01-01", "soon"}
          [] k = "endDate" -> {"2024-01-01"}
          [] k = "custodian" -> {"tm1"}
          [] k = "intent" -> {"save", "reserve", "delete"}]
BookingForms == Objects(BookingFormKeys, BookingFormValues, DOMAIN BookingFormValues)

Requests ==
    [method : {"POST", "GET"}, params : {<<>>, "bookingId" :> "b1"}, formData : BookingForms]

\* parseFormAny: the object of a form whose field names are flat.
parseFormAny(formData) == formData

\* formData.get(name)
FormDataGet(formData, name) == IF name \in DOMAIN formData THEN formData[name] ELSE Null

\* The local `booking` before upsertBooking has resolved.
NoBooking == <<>>

NoLocals ==
    [authSession |-> Undefined, organizationId |-> Undefined, id |-> Undefined,
     intent |-> Undefined, booking |-> NoBooking]

NoResponse == [kind |-> "none", status |-> 0, body |-> <<>>, cookies |-> <<>>, by |-> ""]

\* The invocation ends by throwing out of the call `name`.
Thrown(name) == [kind |-> "throw", status |-> 0, body |-> <<>>, cookies |-> <<>>, by |-> name]

Called(name, ok) == [call |-> name, ok |-> ok]

\* A step that calls `name`: it returns and the handler goes on to `next`,
\* or it throws and the invocation ends.
CallReturns(name, next) ==
    /\ trace' = Append(trace, Called(name, TRUE))
    /\ pc' = next
    /\ response' = response

CallThrows(name) ==
    /\ trace' = Append(trace, Called(name, FALSE))
    /\ pc' = "done"
    /\ response' = Thrown(name)

\* A request reaches the action.
Invoke ==
    /\ pc = "idle"
    /\ \E r \in Requests : request' = r
    /\ pc' = "assertIsPost"
    /\ locals' = NoLocals
    /\ result' = NotValidated
    /\ trace' = <<>>
    /\ response' = NoResponse
    /\ UNCHANGED formVars

\* assertIsPost(request)
AssertIsPost ==
    /\ pc = "assertIsPost"
    /\ IF request.method = "POST"
       THEN CallReturns("assertIsPost", "requireAuthSession")
       ELSE CallThrows("assertIsPost")
    /\ UNCHANGED <<request, locals, result>>
    /\ UNCHANGED formVars

\* const authSession = await requireAuthSession(request)
RequireAuthSession ==
    /\ pc = "requireAuthSession"
    /\ \/ /\ CallReturns("requireAuthSession", "requireOrganisationId")
          /\ locals' = [locals EXCEPT !.authSession = "user1"]
       \/ /\ CallThrows("requireAuthSession")
          /\ UNCHANGED locals
    /\ UNCHANGED <<request, result>>
    /\ UNCHANGED formVars

\* const { organizationId } = await requireOrganisationId(authSession, request)
RequireOrganisationId ==
    /\ pc = "requireOrganisationId"
    /\ \/ /\ CallReturns("requireOrganisationId", "getRequiredParam")
          /\ locals' = [locals EXCEPT !.organizationId = "org1"]
       \/ /\ CallThrows("requireOrganisationId")
          /\ UNCHANGED locals
    /\ UNCHANGED <<request, result>>
    /\ UNCHANGED formVars

\* const id = getRequiredParam(params, "bookingId")
GetRequiredParam ==
    /\ pc = "getRequiredParam"
    /\ IF "bookingId" \in DOMAIN request.params
       THEN /\ CallReturns("getRequiredParam", "safeParseAsync")
            /\ locals' = [locals EXCEPT !.id = request.params.bookingId]
       ELSE /\ CallThrows("getRequiredParam")
            /\ UNCHANGED locals
    /\ UNCHANGED <<request, result>>
    /\ UNCHANGED formVars

\* const result = await NewBookingFormSchema.safeParseAsync(parseFormAny(formData))
SafeParseAsync ==
    /\ pc = "safeParseAsync"
    /\ result' = Validate(NewBookingFormSchema, parseFormAny(request.formData))
    /\ CallReturns("safeParseAsync", "checkResult")
    /\ UNCHANGED <<request, locals>>
    /\ UNCHANGED formVars

\* Variant: the error response without its status option.
InvalidResponse_status200(res) ==
    [kind |-> "json", status |-> 200, body |-> [errors |-> res.errors, success |-> FALSE],
     cookies |-> <<"authSession">>, by |-> ""]

\* json({ errors: result.error, success: false }, { status: 400, headers })
InvalidResponse(res) ==
    [kind |-> "json", status |-> 400, body |-> [errors |-> res.errors, success |-> FALSE],
     cookies |-> <<"authSession">>, by |-> ""]

\* if (!result.success) return json(...)
CheckResult ==
    /\ pc = "checkResult"
    /\ IF result.status # "Valid"
       THEN /\ trace' = Append(trace, Called("commitAuthSession", TRUE))
            /\ response' = InvalidResponse(result)
            /\ pc' = "done"
       ELSE /\ pc' = "switch"
            /\ UNCHANGED <<trace, response>>
    /\ UNCHANGED <<request, locals, result>>
    /\ UNCHANGED formVars

NullResponse == [kind |-> "null", status |-> 0, body |-> <<>>, cookies |-> <<>>, by |-> ""]

\* Variant: case "reserve" falling into the save case.
SavesOn_reserveToo(intent) == intent \in {"save", "reserve"}

\* The case of the switch that calls upsertBooking.
SavesOn(intent) == intent = "save"

\* const intent = formData.get("intent"); switch (intent) { ... }
SwitchIntent ==
    /\ pc = "switch"
    /\ LET intent == FormDataGet(request.formData, "intent")
       IN /\ locals' = [locals EXCEPT !.intent = intent]
          /\ IF SavesOn(intent)
             THEN /\ pc' = "upsertBooking"
                  /\ response' = response
             ELSE /\ pc' = "done"
                  /\ response' = NullResponse
    /\ UNCHANGED <<request, result, trace>>
    /\ UNCHANGED formVars

\* upsertBooking's arguments, which the booking it resolves to holds.
UpsertArgs ==
    [custodianTeamMemberId |-> result.data.custodian, organizationId |-> locals.organizationId,
     id |-> locals.id, name |-> result.data.name,
     from |-> result.data.startDate, to |-> result.data.endDate]

\* Variant: the rejection caught and the handler going on.
AfterUpsertThrows_swallowed ==
    /\ trace' = Append(trace, Called("upsertBooking", FALSE))
    /\ pc' = "sendNotification"
    /\ response' = response

\* Where the handler stands after upsertBooking has thrown.
AfterUpsertThrows == CallThrows("upsertBooking")

\* const booking = await upsertBooking({...})
UpsertBooking ==
    /\ pc = "upsertBooking"
    /\ \/ /\ CallReturns("upsertBooking", "sendNotification")
          /\ locals' = [locals EXCEPT !.booking = UpsertArgs]
       \/ /\ AfterUpsertThrows
          /\ UNCHANGED locals
    /\ UNCHANGED <<request, result>>
    /\ UNCHANGED formVars

\* sendNotification({ title: "Booking saved", ... })
SendNotification ==
    /\ pc = "sendNotification"
    /\ CallReturns("sendNotification", "return")
    /\ UNCHANGED <<request, locals, result>>
    /\ UNCHANGED formVars

SavedResponse(booking) ==
    [kind |-> "json", status |-> 200, body |-> [booking |-> booking],
     cookies |-> <<"authSession", "selectedOrganizationId">>, by |-> ""]

\* return json({ booking }, { status: 200, headers: [...] })
ReturnBooking ==
    /\ pc = "return"
    /\ trace' = trace \o <<Called("commitAuthSession", TRUE), Called("setSelectedOrganizationIdCookie", TRUE)>>
    /\ response' = SavedResponse(locals.booking)
    /\ pc' = "done"
    /\ UNCHANGED <<request, locals, result>>
    /\ UNCHANGED formVars

NoRequest == [method |-> "none", params |-> <<>>, formData |-> <<>>]

\* The response is sent; the route waits for the next request.
Respond ==
    /\ pc = "done"
    /\ pc' = "idle"
    /\ request' = NoRequest
    /\ locals' = NoLocals
    /\ result' = NotValidated
    /\ trace' = <<>>
    /\ response' = NoResponse
    /\ UNCHANGED formVars

(***************************************************************************)
(* Specifications                                                          *)
(***************************************************************************)
Init ==
    /\ pc = "idle"
    /\ props = NoProps
    /\ loaded = <<>>
    /\ customFields = <<>>
    /\ FormSchema = <<>>
    /\ defaults = <<>>
    /\ rawValues = <<>>
    /\ zo = NotValidated
    /\ file = NoFile
    /\ fileError = Undefined
    /\ request = NoRequest
    /\ locals = NoLocals
    /\ result = NotValidated
    /\ trace = <<>>
    /\ response = NoResponse

\* The new-asset form and the booking action.
Next ==
    \/ MountNew
    \/ Submit
    \/ ValidateFile
    \/ Unmount
    \/ Invoke
    \/ AssertIsPost
    \/ RequireAuthSession
    \/ RequireOrganisationId
    \/ GetRequiredParam
    \/ SafeParseAsync
    \/ CheckResult
    \/ SwitchIntent
    \/ UpsertBooking
    \/ SendNotification
    \/ ReturnBooking
    \/ Respond

Spec == Init /\ [][Next]_vars

\* The form of an organisation without custom fields, any field filled or
\* omitted.
NextBase == MountPlain \/ SubmitAny \/ Unmount

SpecBase == Init /\ [][NextBase]_vars

\* The edit page rendered with any props and custom fields.
NextRender == MountEdit \/ Unmount

SpecRender == Init /\ [][NextRender]_vars

(***************************************************************************)
(* Properties                                                              *)
(***************************************************************************)
\* The names of the calls made so far.
CallsOf(name) == {i \in 1..Len(trace) : trace[i].call = name}

\* The fields of `schema` whose rule `raw` violates.
Violated(schema, raw) ==
    {schema[i].name : i \in {j \in 1..Len(schema) : FieldError(schema[j], raw) # Undefined}}

\* C1: when the form data of a request fails NewBookingFormSchema, the
\* invocation never calls upsertBooking and never sends the notification,
\* and it ends by returning status 400 with success = false and the
\* validation errors.
C1_NoSaveOnValidationFailure ==
    result.status = "Invalid" =>
        /\ CallsOf("upsertBooking") = {}
        /\ CallsOf("sendNotification") = {}
        /\ pc \in {"checkResult", "done"}
        /\ pc = "done" =>
            /\ response.kind = "json"
            /\ response.status = 400
            /\ response.body.success = FALSE
            /\ response.body.errors = result.errors
            /\ DOMAIN response.body.errors # {}

\* C1's case: a request to save whose form data is invalid has been answered.
C1_Witness ==
    /\ pc = "done"
    /\ result.status = "Invalid"
    /\ FormDataGet(request.formData, "intent") = "save"
    /\ response.status = 400

\* C2: every element AssetForm hands to the merger is a definition of an
\* active field, and there are as many elements as active fields.
C2_OnlyActiveDefinitionsPassed ==
    pc \in {"mounted", "validated"} =>
        /\ \A i \in 1..Len(customFields) : IsDefinition(customFields[i]) /\ loaded[i].active
        /\ Len(customFields) = Cardinality({i \in 1..Len(loaded) : loaded[i].active})

\* C3: with a title present, validation reports "Title is required" on
\* title exactly when the title is the empty string.
C3_TitleErrorIffEmpty ==
    (zo.status # "none" /\ "title" \in DOMAIN rawValues) =>
        /\ "title" \in DOMAIN zo.errors <=> rawValues["title"] = ""
        /\ "title" \in DOMAIN zo.errors => zo.errors["title"] = "Title is required"

\* C4: for an active custom field that the form omits, validation reports an
\* error under the field's name exactly when the definition is required; a
\* required field with an empty value is an error too; an optional omitted
\* field is never what makes the result Invalid.
C4_RequiredCustomField ==
    zo.status # "none" =>
        \A i \in 1..Len(loaded) :
            loaded[i].active =>
                LET n == loaded[i].name
                IN /\ n \notin DOMAIN rawValues =>
                        (n \in DOMAIN zo.errors <=> loaded[i].required)
                   /\ (loaded[i].required /\ n \in DOMAIN rawValues /\ rawValues[n] = "") =>
                        n \in DOMAIN zo.errors
                   /\ (~loaded[i].required /\ n \notin DOMAIN rawValues /\ zo.status = "Invalid") =>
                        (DOMAIN zo.errors) \ {n} # {}
                   /\ n \in DOMAIN zo.errors => zo.status = "Invalid"

\* C4's case: a required active custom field was omitted and is reported.
C4_Witness ==
    /\ zo.status = "Invalid"
    /\ \E i \in 1..Len(loaded) :
        /\ loaded[i].active /\ loaded[i].required
        /\ loaded[i].name \notin DOMAIN rawValues
        /\ loaded[i].name \in DOMAIN zo.errors

\* C5: validating with a base field absent gives the same outcome, and the
\* same error for that field, as validating with it set to the empty string.
C5_AbsentIsEmpty ==
    zo.status # "none" =>
        \A f \in BaseFields :
            LET absent == Validate(FormSchema, Restrict(rawValues, (DOMAIN rawValues) \ {f}))
                empty == Validate(FormSchema, (f :> "") @@ rawValues)
            IN /\ absent.status = empty.status
               /\ Restrict(absent.errors, {f}) = Restrict(empty.errors, {f})

\* C6: the error mapping of a validation has exactly one entry per violated
\* field and none for another field, the result is Invalid exactly when some
\* field is violated, and the booking action returns the whole mapping.
C6_AllErrorsCollected ==
    /\ zo.status # "none" =>
        /\ DOMAIN zo.errors = Violated(FormSchema, rawValues)
        /\ zo.status = "Invalid" <=> Violated(FormSchema, rawValues) # {}
    /\ result.status # "none" =>
        /\ DOMAIN result.errors = Violated(NewBookingFormSchema, parseFormAny(request.formData))
        /\ (pc = "done" /\ result.status = "Invalid") =>
              DOMAIN response.body.errors = Violated(NewBookingFormSchema, parseFormAny(request.formData))

\* C6's case: a form that violates three fields, one of them custom, has
\* been validated.
C6_Witness ==
    /\ zo.status = "Invalid"
    /\ Cardinality(DOMAIN zo.errors) = 3
    /\ (DOMAIN zo.errors) \ BaseFields # {}
    /\ (DOMAIN zo.errors) \cap BaseFields # {}

C8_PropsAreDefaults ==
    pc \in {"mounted", "validated"} =>
        /\ defaults["Name"] = (IF Truthy(props, "title") THEN props["title"] ELSE "")
        /\ defaults["Description"] = (IF Truthy(props, "description") THEN props["description"] ELSE "")
        /\ IF Truthy(props, "category")
           THEN "Category" \in DOMAIN defaults /\ defaults["Category"] = props["category"]
           ELSE "Category" \notin DOMAIN defaults
        /\ IF Truthy(props, "location")
           THEN "Location" \in DOMAIN defaults /\ defaults["Location"] = props["location"]
           ELSE "Location" \notin DOMAIN defaults

\* The checks the action makes before the switch, in the order of the code.
ChecksBeforeSave == <<"assertIsPost", "requireAuthSession", "requireOrganisationId", "safeParseAsync">>

\* Before position i of the trace, the calls of `names` returned, in order.
ReturnedInOrder(names, i) ==
    \E pos \in [1..Len(names) -> 1..Len(trace)] :
        /\ \A k \in 1..Len(names) :
            /\ pos[k] < i
            /\ trace[pos[k]] = Called(names[k], TRUE)
        /\ \A k \in 1..(Len(names) - 1) : pos[k] < pos[k + 1]

\* C9: upsertBooking is called at most once in an invocation, only after the
\* POST check, the session check, the organisation resolution and the
\* validation have succeeded in this order, and only when the intent is
\* "save"; a valid form with another or no intent returns null without the
\* call.
C9_UpsertOnlyAfterChecks ==
    /\ Cardinality(CallsOf("upsertBooking")) <= 1
    /\ \A i \in CallsOf("upsertBooking") :
        /\ ReturnedInOrder(ChecksBeforeSave, i)
        /\ result.status = "Valid"
        /\ FormDataGet(request.formData, "intent") = "save"
    /\ (pc = "done" /\ result.status = "Valid" /\ FormDataGet(request.formData, "intent") # "save") =>
        /\ response = NullResponse
        /\ CallsOf("upsertBooking") = {}

\* C9's case: upsertBooking has been called.
C9_Witness ==
    /\ CallsOf("upsertBooking") # {}
    /\ locals.intent = "save"

\* C10: a notification is sent only after upsertBooking has returned in the
\* same invocation; none is sent when it was not called or threw; and an
\* invocation that sent it ends by returning the booking with status 200.
C10_NotifyOnlyAfterSave ==
    /\ \A i \in CallsOf("sendNotification") :
        \E j \in 1..(i - 1) : trace[j] = Called("upsertBooking", TRUE)
    /\ (\E j \in 1..Len(trace) : trace[j] = Called("upsertBooking", FALSE)) =>
        /\ CallsOf("sendNotification") = {}
        /\ pc = "done" /\ response = Thrown("upsertBooking")
    /\ CallsOf("sendNotification") # {} =>
        /\ pc \in {"return", "done"}
        /\ locals.booking # NoBooking
        /\ pc = "done" => response = SavedResponse(locals.booking)

\* C10's case: the notification was sent and the booking returned.
C10_Witness ==
    /\ pc = "done"
    /\ CallsOf("sendNotification") # {}
    /\ response.status = 200

====
